---- MODULE Spec2Model ----
(***************************************************************************)
(* A model of the fontParts base object layer: the dynamicProperty         *)
(* descriptor, BaseObject.copy/copyData, the BaseFont file and layer       *)
(* operations, the children's weak parent back-references and the          *)
(* validators, with a reference environment standing behind the abstract   *)
(* hooks (_save, _close, _generate, _newLayer, ...).                       *)
(***************************************************************************)
EXTENDS Integers, Sequences, FiniteSets, TLC

VARIABLES
    pObjs,      \* dynamicProperty: instance __dict__ of every object
    pLast,      \* dynamicProperty: the last attribute access and what it did
    cPoints,    \* copy: the point objects, by slot
    cLast,      \* copy: the last operation on a point and what it did
    cSteps,     \* copy: the number of operations made
    fPath,      \* file: what the environment's _get_path returns
    fOpen,      \* file: whether the font is open in the environment
    fCalls,     \* file: the methods and hooks the last operation called, in order
    fLast,      \* file: the last file operation, its arguments and result
    lFonts,     \* layers: the fonts, by slot, as their environment holds them
    lLast,      \* layers: the last operation on a font, the hooks it called, its result
    lSteps,     \* layers: the number of operations made
    wParents,   \* parents: the contours and fonts, their lifetime and holders
    wChildren,  \* parents: the points, segments and features, and their _contour/_font
    wLast,      \* parents: the last operation on a child or parent and its result
    vName,      \* validators: the validator the caller uses
    vArg,       \* validators: the object the caller passes
    vOut,       \* validators: what the validator did with the object
    vAgain      \* validators: what the validator did with its own result

propVars == <<pObjs, pLast>>

copyVars == <<cPoints, cLast, cSteps>>

fileVars == <<fPath, fOpen, fCalls, fLast>>

layerVars == <<lFonts, lLast, lSteps>>

weakVars == <<wParents, wChildren, wLast>>

validVars == <<vName, vArg, vOut, vAgain>>

\* What each part of the model leaves alone.
nonPropVars == <<copyVars, fileVars, layerVars, weakVars, validVars>>

nonCopyVars == <<propVars, fileVars, layerVars, weakVars, validVars>>

nonFileVars == <<propVars, copyVars, layerVars, weakVars, validVars>>

nonLayerVars == <<propVars, copyVars, fileVars, weakVars, validVars>>

nonWeakVars == <<propVars, copyVars, fileVars, layerVars, validVars>>

nonValidVars == <<propVars, copyVars, fileVars, layerVars, weakVars>>

vars ==
    <<pObjs, pLast, cPoints, cLast, cSteps, fPath, fOpen, fCalls, fLast,
      lFonts, lLast, lSteps, wParents, wChildren, wLast,
      vName, vArg, vOut, vAgain>>

(***************************************************************************)
(* Python values: ints, strings and None, tagged so that they compare.     *)
(***************************************************************************)
IntV(n) == [t |-> "int", i |-> n, s |-> ""]
StrV(x) == [t |-> "str", i |-> 0, s |-> x]
NoneV == [t |-> "none", i |-> 0, s |-> ""]
ErrV(msg) == [t |-> "error", i |-> 0, s |-> msg]
BoolV(b) == [t |-> "bool", i |-> IF b THEN 1 ELSE 0, s |-> ""]

\* The largest integer a caller assigns to an attribute.
MaxVal == 3

AssignedInts == 1..MaxVal

(***************************************************************************)
(* dynamicProperty (base.py).                                              *)
(***************************************************************************)

\* dynamicProperty.__init__: the accessor names are derived from the name.
DynamicProperty(name) ==
    [name |-> name,
     getterName |-> "_get_" \o name,
     setterName |-> "_set_" \o name]

\* The classes of the model: their bases (the method resolution order after
\* the class itself), class attributes, methods and declared properties.
BaseObjectClass ==
    [mro |-> <<"BaseObject">>,
     attrs |-> ("_foo" :> IntV(1)),
     meths |-> ("_get_foo" :> "BaseObject._get_foo"
                @@ "_set_foo" :> "BaseObject._set_foo"),
     props |-> ("foo" :> DynamicProperty("foo"))]

MyObjectClass ==
    [mro |-> <<"MyObject", "BaseObject">>,
     attrs |-> <<>>,
     meths |-> ("_set_foo" :> "MyObject._set_foo"),
     props |-> <<>>]

\* A subclass that overrides only the getter.
MyGetObjectClass ==
    [mro |-> <<"MyGetObject", "BaseObject">>,
     attrs |-> <<>>,
     meths |-> ("_get_foo" :> "MyGetObject._get_foo"),
     props |-> <<>>]

\* A class that declares a dynamicProperty and defines only its setter.
SetOnlyObjectClass ==
    [mro |-> <<"SetOnlyObject">>,
     attrs |-> ("_bar" :> IntV(1)),
     meths |-> ("_set_bar" :> "SetOnlyObject._set_bar"),
     props |-> ("bar" :> DynamicProperty("bar"))]

BasePointClass ==
    [mro |-> <<"BasePoint">>,
     attrs |-> ("_index" :> NoneV @@ "_identifier" :> StrV("id1")
                @@ "_x" :> IntV(1)),
     meths |-> ("_get_base_index" :> "BasePoint._get_base_index"
                @@ "_get_base_identifier" :> "BasePoint._get_base_identifier"
                @@ "_get_base_x" :> "BasePoint._get_base_x"
                @@ "_set_base_x" :> "BasePoint._set_base_x"),
     props |-> ("index" :> DynamicProperty("base_index")
                @@ "identifier" :> DynamicProperty("base_identifier")
                @@ "x" :> DynamicProperty("base_x"))]

BaseSegmentClass ==
    [mro |-> <<"BaseSegment">>,
     attrs |-> ("_index" :> IntV(0)),
     meths |-> ("_get_base_index" :> "BaseSegment._get_base_index"),
     props |-> ("index" :> DynamicProperty("base_index"))]

BaseFontClass ==
    [mro |-> <<"BaseFont">>,
     attrs |-> ("_path" :> StrV("/d/f.ufo")),
     meths |-> ("_get_base_path" :> "BaseFont._get_base_path"),
     props |-> ("path" :> DynamicProperty("base_path"))]

ClassNames ==
    {"BaseObject", "MyObject", "MyGetObject", "SetOnlyObject",
     "BasePoint", "BaseSegment", "BaseFont"}

ClassOf(c) ==
    CASE c = "BaseObject" -> BaseObjectClass
      [] c = "MyObject" -> MyObjectClass
      [] c = "MyGetObject" -> MyGetObjectClass
      [] c = "SetOnlyObject" -> SetOnlyObjectClass
      [] c = "BasePoint" -> BasePointClass
      [] c = "BaseSegment" -> BaseSegmentClass
      [] c = "BaseFont" -> BaseFontClass

\* The model holds one instance of every class, named by its class.
Mro(o) == ClassOf(o).mro

RECURSIVE FindInMro(_, _, _)
\* The first class of the resolution order whose table `kind` holds `name`,
\* or "" when none does.
FindInMro(order, kind, name) ==
    IF order = <<>> THEN ""
    ELSE IF name \in DOMAIN ClassOf(Head(order))[kind] THEN Head(order)
    ELSE FindInMro(Tail(order), kind, name)

\* getattr(obj, name, None) for a method: the implementation found on the
\* instance's class at the time of the call, "None" when there is none.
GetMethod(o, name) ==
    LET c == FindInMro(Mro(o), "meths", name)
    IN  IF c = "" THEN "None" ELSE ClassOf(c).meths[name]

\* getattr(obj, name) for data: the instance __dict__ first, then the classes.
GetData(dict, o, name) ==
    IF name \in DOMAIN dict THEN dict[name]
    ELSE ClassOf(FindInMro(Mro(o), "attrs", name)).attrs[name]

\* The dynamicProperty object an attribute name resolves to on obj's class.
PropsOf(o) == UNION {DOMAIN ClassOf(Mro(o)[k]).props : k \in DOMAIN Mro(o)}

PropOf(o, attr) == ClassOf(FindInMro(Mro(o), "props", attr)).props[attr]

\* setattr(self, name, value) on the instance __dict__.
SetData(dict, name, value) ==
    [n \in DOMAIN dict \cup {name} |-> IF n = name THEN value ELSE dict[n]]

\* The bodies of the methods. Each returns the instance __dict__ it leaves
\* and the value it returns.
CallMethod(impl, dict, o, arg) ==
    CASE impl = "BaseObject._get_foo" ->
            [dict |-> dict, ret |-> GetData(dict, o, "_foo")]
      [] impl = "BaseObject._set_foo" ->
            [dict |-> SetData(dict, "_foo", arg), ret |-> NoneV]
      [] impl = "MyObject._set_foo" ->
            [dict |-> SetData(dict, "_foo", IntV(arg.i * 100)), ret |-> NoneV]
      [] impl = "MyGetObject._get_foo" ->
            [dict |-> dict, ret |-> IntV(0 - GetData(dict, o, "_foo").i)]
      [] impl = "SetOnlyObject._set_bar" ->
            [dict |-> SetData(dict, "_bar", arg), ret |-> NoneV]
      [] impl = "BasePoint._get_base_index" ->
            [dict |-> dict, ret |-> GetData(dict, o, "_index")]
      [] impl = "BasePoint._get_base_identifier" ->
            [dict |-> dict, ret |-> GetData(dict, o, "_identifier")]
      [] impl = "BasePoint._get_base_x" ->
            [dict |-> dict, ret |-> GetData(dict, o, "_x")]
      [] impl = "BasePoint._set_base_x" ->
            [dict |-> SetData(dict, "_x", arg), ret |-> NoneV]
      [] impl = "BaseSegment._get_base_index" ->
            [dict |-> dict, ret |-> GetData(dict, o, "_index")]
      [] impl = "BaseFont._get_base_path" ->
            [dict |-> dict, ret |-> GetData(dict, o, "_path")]

\* A descriptor that binds the accessors of the class that declares the
\* property, as the built-in property() does.
DescriptorLookupStatic(o, attr, name) ==
    LET c == FindInMro(Mro(o), "props", attr)
    IN  IF name \in DOMAIN ClassOf(c).meths THEN ClassOf(c).meths[name]
        ELSE "None"

\* The accessor the descriptor uses: getattr(obj, self.getterName, None).
DescriptorLookup(o, attr, name) == GetMethod(o, name)

\* dynamicProperty.__set__ that drops the assignment when no setter exists.
DescriptorSetSilent(d, setter, dict, o, value) ==
    IF setter # "None"
    THEN [dict |-> CallMethod(setter, dict, o, value).dict,
          calls |-> <<[name |-> d.setterName, impl |-> setter, arg |-> value]>>,
          res |-> NoneV]
    ELSE [dict |-> dict, calls |-> <<>>, res |-> NoneV]

\* dynamicProperty.__get__
DescriptorGet(d, getter, dict, o) ==
    IF getter # "None"
    THEN [dict |-> CallMethod(getter, dict, o, NoneV).dict,
          calls |-> <<[name |-> d.getterName, impl |-> getter, arg |-> NoneV]>>,
          res |-> CallMethod(getter, dict, o, NoneV).ret]
    ELSE [dict |-> dict, calls |-> <<>>,
          res |-> ErrV("no getter for '" \o d.name \o "'")]

\* dynamicProperty.__set__
DescriptorSet(d, setter, dict, o, value) ==
    IF setter # "None"
    THEN [dict |-> CallMethod(setter, dict, o, value).dict,
          calls |-> <<[name |-> d.setterName, impl |-> setter, arg |-> value]>>,
          res |-> NoneV]
    ELSE [dict |-> dict, calls |-> <<>>,
          res |-> ErrV("no setter for '" \o d.name \o "'")]

NoAccess ==
    [op |-> "none", obj |-> "", attr |-> "", arg |-> NoneV,
     calls |-> <<>>, res |-> NoneV]

PropInit ==
    /\ pObjs = [o \in ClassNames |-> <<>>]
    /\ pLast = NoAccess

\* value = obj.attr
PropRead(o, attr) ==
    /\ UNCHANGED nonPropVars
    /\
       LET d == PropOf(o, attr)
           r == DescriptorGet(d, DescriptorLookup(o, attr, d.getterName), pObjs[o], o)
       IN
        /\ pObjs' = [pObjs EXCEPT ![o] = r.dict]
        /\ pLast' = [op |-> "get", obj |-> o, attr |-> attr, arg |-> NoneV,
                     calls |-> r.calls, res |-> r.res]

\* obj.attr = value
PropAssign(o, attr, value) ==
    /\ UNCHANGED nonPropVars
    /\ LET d == PropOf(o, attr)
           r == DescriptorSet(d, DescriptorLookup(o, attr, d.setterName), pObjs[o], o, value)
       IN
        /\ pObjs' = [pObjs EXCEPT ![o] = r.dict]
        /\ pLast' = [op |-> "set", obj |-> o, attr |-> attr, arg |-> value,
                     calls |-> r.calls, res |-> r.res]

PropReadStep == \E o \in ClassNames : \E attr \in PropsOf(o) : PropRead(o, attr)

PropAssignStep ==
    \E o \in ClassNames : \E attr \in PropsOf(o) : \E n \in AssignedInts :
        PropAssign(o, attr, IntV(n))

PropNext == PropReadStep \/ PropAssignStep

PropIdle == PropInit

(***************************************************************************)
(* Claims about dynamicProperty.                                           *)
(***************************************************************************)

\* The value of the instance's _foo as Python reads it.
FooOf(o) == GetData(pObjs[o], o, "_foo")

\* C1: reading obj.N returns what the _get_N found on the instance returns,
\* and assigning calls the instance's _set_N exactly once with the value, so
\* a subclass overriding only one accessor has its override used: MyObject
\* (setter times 100) stores 100 * value and reads it back, MyGetObject
\* (getter negating) reads the negated stored value, BaseObject stores and
\* reads the value itself.
C1_DynamicDispatch ==
    /\ (pLast.op = "set" /\ pLast.obj \in {"BaseObject", "MyObject", "MyGetObject"}) =>
          /\ Len(pLast.calls) = 1
          /\ pLast.calls[1].name = "_set_foo"
          /\ pLast.calls[1].arg = pLast.arg
          /\ pLast.calls[1].impl =
                (IF pLast.obj = "MyObject" THEN "MyObject._set_foo"
                 ELSE "BaseObject._set_foo")
          /\ FooOf(pLast.obj) =
                (IF pLast.obj = "MyObject" THEN IntV(pLast.arg.i * 100)
                 ELSE pLast.arg)
    /\ (pLast.op = "get" /\ pLast.obj \in {"BaseObject", "MyObject", "MyGetObject"}) =>
          /\ Len(pLast.calls) = 1
          /\ pLast.calls[1].name = "_get_foo"
          /\ pLast.calls[1].impl =
                (IF pLast.obj = "MyGetObject" THEN "MyGetObject._get_foo"
                 ELSE "BaseObject._get_foo")
          /\ pLast.res =
                (IF pLast.obj = "MyGetObject" THEN IntV(0 - FooOf(pLast.obj).i)
                 ELSE FooOf(pLast.obj))
    /\ (pLast.op = "set" /\ pLast.obj = "BasePoint" /\ pLast.attr = "x") =>
          /\ Len(pLast.calls) = 1
          /\ pLast.calls[1].name = "_set_base_x"
          /\ pLast.calls[1].arg = pLast.arg

\* C1 witness: the docstring example, m.foo = 2 has been made on a MyObject
\* and m.foo reads 200.
C1_Witness ==
    /\ pLast.op = "get" /\ pLast.obj = "MyObject"
    /\ pLast.res = IntV(200)

ReadOnlyAttrs ==
    {<<"BasePoint", "index">>, <<"BasePoint", "identifier">>,
     <<"BaseSegment", "index">>, <<"BaseFont", "path">>}

\* The inner name each read only attribute was declared with.
ReadOnlyInner(attr) ==
    CASE attr = "index" -> "base_index"
      [] attr = "identifier" -> "base_identifier"
      [] attr = "path" -> "base_path"

\* C2: assigning a read only attribute (BasePoint.index, BasePoint.identifier,
\* BaseSegment.index, BaseFont.path) calls nothing, raises FontPartsError
\* "no setter" and leaves every object unchanged; reading a property whose
\* getter is missing raises "no getter" and changes nothing.
C2_ReadOnly ==
    [][/\ (pLast'.op = "set" /\ <<pLast'.obj, pLast'.attr>> \in ReadOnlyAttrs) =>
            /\ pLast'.res = ErrV("no setter for '" \o ReadOnlyInner(pLast'.attr) \o "'")
            /\ pLast'.calls = <<>>
            /\ pObjs' = pObjs
       /\ (pLast'.op = "get" /\ pLast'.obj = "SetOnlyObject") =>
            /\ pLast'.res = ErrV("no getter for 'bar'")
            /\ pLast'.calls = <<>>
            /\ pObjs' = pObjs]_vars

\* C2 witness: an assignment to BasePoint.index has been refused.
C2_Witness ==
    /\ pLast.op = "set" /\ pLast.obj = "BasePoint" /\ pLast.attr = "index"
    /\ pLast.res.t = "error"

(***************************************************************************)
(* BaseObject.copy and copyData on points (base.py, point.py), over a      *)
(* reference environment that stores what the _set_ hooks are given.       *)
(***************************************************************************)

\* The number of point slots: the points that can exist at once.
MaxPoints == 3

\* The number of operations made on the points.
MaxSteps == 5

PointSlots == 1..MaxPoints

Contours == {"c1"}

\* A point class and a subclass of it that sets copyClass.
PointClasses == {"RPoint", "RPointProxy"}

\* BaseObject.copyClass, as each class sets it.
CopyClassOf(cls) == IF cls = "RPointProxy" THEN "RPoint" ELSE "None"

\* BasePoint.copyAttributes
PointCopyAttributes == <<"type", "smooth", "x", "y", "name">>

\* The values the model's callers assign to each attribute; the last of
\* each is one its normalizer refuses.
PointValues(attr) ==
    CASE attr = "type" -> {StrV("line"), StrV("offcurve"), IntV(7)}
      [] attr = "smooth" -> {BoolV(TRUE), BoolV(FALSE)}
      [] attr = "x" -> {IntV(0), IntV(1), StrV("a")}
      [] attr = "y" -> {IntV(0), IntV(1)}
      [] attr = "name" -> {NoneV, StrV("n")}

NoPoint ==
    [cls |-> "None", contour |-> "None",
     data |-> [a \in {} |-> NoneV]]

\* copyClass(): a new native point wrapped, with no parent: _contour is the
\* class attribute None.
NewPointObject(cls) ==
    [cls |-> cls, contour |-> "None",
     data |-> ("type" :> StrV("offcurve") @@ "smooth" :> BoolV(FALSE)
               @@ "x" :> IntV(0) @@ "y" :> IntV(0) @@ "name" :> NoneV)]

\* normalizers.normalizeX / normalizeY
normalizeX(value) ==
    IF value.t # "int"
    THEN ErrV("X coordinates must be instances of int or float")
    ELSE value

\* normalizers.normalizePointType, normalizeBoolean and normalizePointName
normalizePointType(value) ==
    IF value.t # "str" THEN ErrV("Point type must be a string")
    ELSE IF value.s \notin {"move", "line", "offcurve", "curve", "qcurve"}
    THEN ErrV("Point type must be move, line, offcurve, curve or qcurve")
    ELSE value

normalizeBoolean(value) ==
    IF value.t # "bool" THEN ErrV("Boolean values must be True or False")
    ELSE value

normalizePointName(value) ==
    IF value.t # "str" THEN ErrV("Point names must be strings")
    ELSE IF value.s = "" THEN ErrV("Point names must be at least one character long")
    ELSE value

\* The normalizer the _get_base_ and _set_base_ accessors of attr apply.
PointNormalize(attr, value) ==
    CASE attr = "type" -> normalizePointType(value)
      [] attr = "smooth" -> normalizeBoolean(value)
      [] attr \in {"x", "y"} -> normalizeX(value)
      [] attr = "name" -> IF value.t = "none" THEN value ELSE normalizePointName(value)

\* getattr(point, attr): _get_base_<attr>, the environment's value normalized.
PointGet(pt, attr) == PointNormalize(attr, pt.data[attr])

\* setattr(point, attr, value): _set_base_<attr>; the point it leaves, or the
\* error raised before the environment was told anything.
PointSet(pt, attr, value) ==
    LET v == PointNormalize(attr, value)
    IN  IF v.t = "error" THEN [pt |-> pt, err |-> v]
        ELSE [pt |-> [pt EXCEPT !.data[attr] = v], err |-> NoneV]

\* BasePoint._get_contour: the weak reference followed.
GetContour(pt) == pt.contour

\* BasePoint._get_glyph, _get_layer, _get_font
ContourGlyph(c) == IF c = "None" THEN "None" ELSE "glyph of " \o c

GetGlyph(pt) == IF pt.contour = "None" THEN "None" ELSE ContourGlyph(GetContour(pt))

GetLayer(pt) == IF pt.contour = "None" THEN "None" ELSE "layer of " \o GetGlyph(pt)

GetFont(pt) == IF pt.contour = "None" THEN "None" ELSE "font of " \o GetGlyph(pt)

RECURSIVE CopyDataLoop(_, _, _)
\* BaseObject.copyData: for attr in self.copyAttributes, the source's value
\* is read and set on self; an error raised on the way ends the loop.
CopyDataLoop(attrs, self, source) ==
    IF attrs = <<>> THEN [pt |-> self, err |-> NoneV]
    ELSE LET sourceValue == PointGet(source, Head(attrs))
             r == PointSet(self, Head(attrs), sourceValue)
         IN  IF PointGet(self, Head(attrs)).t = "error"
             THEN [pt |-> self, err |-> PointGet(self, Head(attrs))]
             ELSE IF sourceValue.t = "error" THEN [pt |-> self, err |-> sourceValue]
             ELSE IF r.err.t = "error" THEN r
             ELSE CopyDataLoop(Tail(attrs), r.pt, source)

CopyData(attrs, self, source) == CopyDataLoop(attrs, self, source)

\* A copy that keeps the source's parent.
CopyObjectKeepParent(source) ==
    LET copyClass == IF CopyClassOf(source.cls) = "None" THEN source.cls
                     ELSE CopyClassOf(source.cls)
        copied == [NewPointObject(copyClass) EXCEPT !.contour = source.contour]
    IN  CopyData(PointCopyAttributes, copied, source)

\* BaseObject.copy
CopyObject(source) ==
    LET copyClass == IF CopyClassOf(source.cls) = "None" THEN source.cls
                     ELSE CopyClassOf(source.cls)
        copied == NewPointObject(copyClass)
    IN  CopyData(PointCopyAttributes, copied, source)

NoPointOp ==
    [op |-> "none", src |-> 0, dst |-> 0, attr |-> "", arg |-> NoneV,
     err |-> NoneV]

CopyIdle ==
    /\ cPoints = [k \in PointSlots |-> NoPoint]
    /\ cLast = NoPointOp
    /\ cSteps = 0

CopyInit == CopyIdle

FreeSlots == {k \in PointSlots : cPoints[k] = NoPoint}

LivePoints == {k \in PointSlots : cPoints[k] # NoPoint}

FirstFree == CHOOSE k \in FreeSlots : \A j \in FreeSlots : k <= j

\* point = RPoint()
NewPoint(cls) ==
    /\ cSteps < MaxSteps
    /\ FreeSlots # {}
    /\ cPoints' = [cPoints EXCEPT ![FirstFree] = NewPointObject(cls)]
    /\ cLast' = [NoPointOp EXCEPT !.op = "new", !.dst = FirstFree]
    /\ cSteps' = cSteps + 1
    /\ UNCHANGED nonCopyVars

\* point.contour = contour (BasePoint._set_contour); the assertion fails
\* when the point already has a contour.
SetContour(k, c) ==
    /\ cSteps < MaxSteps
    /\ k \in LivePoints
    /\ IF cPoints[k].contour # "None"
       THEN /\ cPoints' = cPoints
            /\ cLast' = [NoPointOp EXCEPT !.op = "contour", !.src = k,
                                          !.err = ErrV("AssertionError")]
       ELSE /\ cPoints' = [cPoints EXCEPT ![k].contour = c]
            /\ cLast' = [NoPointOp EXCEPT !.op = "contour", !.src = k]
    /\ cSteps' = cSteps + 1
    /\ UNCHANGED nonCopyVars

\* point.<attr> = value
SetPointAttr(k, attr, value) ==
    /\ cSteps < MaxSteps
    /\ k \in LivePoints
    /\ LET r == PointSet(cPoints[k], attr, value)
       IN  /\ cPoints' = [cPoints EXCEPT ![k] = r.pt]
           /\ cLast' = [NoPointOp EXCEPT !.op = "set", !.src = k, !.attr = attr,
                                         !.arg = value, !.err = r.err]
    /\ cSteps' = cSteps + 1
    /\ UNCHANGED nonCopyVars

\* copied = point.copy()
CopyPoint(k) ==
    /\ cSteps < MaxSteps
    /\ k \in LivePoints
    /\ FreeSlots # {}
    /\ LET r == CopyObject(cPoints[k])
       IN  /\ cPoints' = [cPoints EXCEPT ![FirstFree] = r.pt]
           /\ cLast' = [NoPointOp EXCEPT !.op = "copy", !.src = k,
                                         !.dst = FirstFree, !.err = r.err]
    /\ cSteps' = cSteps + 1
    /\ UNCHANGED nonCopyVars

NewPointStep == \E cls \in PointClasses : NewPoint(cls)

SetContourStep == \E k \in PointSlots : \E c \in Contours : SetContour(k, c)

SetPointAttrStep ==
    \E k \in PointSlots : \E i \in DOMAIN PointCopyAttributes :
        \E value \in PointValues(PointCopyAttributes[i]) :
            SetPointAttr(k, PointCopyAttributes[i], value)

CopyPointStep == \E k \in PointSlots : CopyPoint(k)

CopyNext == NewPointStep \/ SetContourStep \/ SetPointAttrStep \/ CopyPointStep

(***************************************************************************)
(* Claims about copy.                                                      *)
(***************************************************************************)

\* C3: obj.copy() returns a new object of the same class (of copyClass when
\* the class sets one) with no parent (contour, glyph, layer and font all
\* None) whose every attribute in copyAttributes equals the source's; the
\* source and its parent reference are left as they were.
C3_CopyIsOrphanWithSameData ==
    [][cLast'.op = "copy" /\ cSteps' = cSteps + 1 =>
        LET source == cPoints[cLast'.src]
            copied == cPoints'[cLast'.dst]
        IN  /\ cLast'.err = NoneV
            /\ cLast'.dst # cLast'.src
            /\ cPoints[cLast'.dst] = NoPoint
            /\ copied.cls = (IF source.cls = "RPointProxy" THEN "RPoint"
                             ELSE source.cls)
            /\ GetContour(copied) = "None"
            /\ GetGlyph(copied) = "None"
            /\ GetLayer(copied) = "None"
            /\ GetFont(copied) = "None"
            /\ \A a \in {"type", "smooth", "x", "y", "name"} :
                  PointGet(copied, a) = PointGet(source, a)
            /\ \A j \in PointSlots : j # cLast'.dst => cPoints'[j] = cPoints[j]]_vars

\* C3 witness: a point that has a contour and data of its own has been
\* copied.
C3_Witness ==
    /\ cLast.op = "copy"
    /\ cPoints[cLast.src].contour = "c1"
    /\ cPoints[cLast.src].data["y"] = IntV(1)
    /\ cPoints[cLast.src].data["name"] = StrV("n")
    /\ cPoints[cLast.dst].data["name"] = StrV("n")

(***************************************************************************)
(* BaseFont file operations: save, close, generate (font.py).              *)
(***************************************************************************)

\* Argument values: None, strings (sequences of characters, with "/" and
\* "." characters of their own and every other run of characters one
\* element), ints, floats and bools.
FNone == [t |-> "none", i |-> 0, p |-> <<>>]
FStr(chars) == [t |-> "str", i |-> 0, p |-> chars]
FInt(n) == [t |-> "int", i |-> n, p |-> <<>>]
FFloat(n) == [t |-> "float", i |-> n, p |-> <<>>]
FBool(b) == [t |-> "bool", i |-> IF b THEN 1 ELSE 0, p |-> <<>>]

\* bool(value)
Truthy(v) ==
    CASE v.t = "none" -> FALSE
      [] v.t = "str" -> v.p # <<>>
      [] OTHER -> v.i # 0

\* The files the fonts of the model are opened from.
FontPaths ==
    {<<"/", "d", "/", "font", ".", "ufo">>,
     <<"/", "d", "/", "font">>,
     <<"/", "d", ".", "v2", "/", "font">>,
     <<"/", "d", "/", ".", "font">>}

\* The directories that exist: os.path.isdir is true of these.
Directories == {<<"/", "out">>, <<"/", "out", "/">>, <<"/", "d">>}

isdir(chars) == chars \in Directories

\* The index of the last occurrence of c in chars, 0 when there is none
\* (str.rfind, counted from 1).
rfind(chars, c) ==
    IF \E k \in DOMAIN chars : chars[k] = c
    THEN CHOOSE k \in DOMAIN chars :
            chars[k] = c /\ \A j \in DOMAIN chars : chars[j] = c => j <= k
    ELSE 0

\* os.path.splitext: the extension starts at the last dot of the last
\* component, unless only dots come before it in that component.
splitext(chars) ==
    LET sepIndex == rfind(chars, "/")
        dotIndex == rfind(chars, ".")
    IN  IF dotIndex > sepIndex
           /\ \E k \in (sepIndex + 1)..(dotIndex - 1) : chars[k] # "."
        THEN <<SubSeq(chars, 1, dotIndex - 1), SubSeq(chars, dotIndex, Len(chars))>>
        ELSE <<chars, <<>>>>

\* os.path.basename
basename(chars) == SubSeq(chars, rfind(chars, "/") + 1, Len(chars))

\* os.path.join(a, b)
join(a, b) ==
    IF b # <<>> /\ Head(b) = "/" THEN b
    ELSE IF a = <<>> \/ a[Len(a)] = "/" THEN a \o b
    ELSE a \o <<"/">> \o b

\* normalizers.normalizeFilePath: the value when it is a string.
normalizeFilePath(v) ==
    IF v.t # "str" THEN [err |-> "FontPartsError", v |-> v]
    ELSE [err |-> "", v |-> v]

\* normalizers.normalizeFileFormatVersion: the value when it is an int or a
\* float (a bool is an int).
normalizeFileFormatVersion(v) ==
    IF v.t \notin {"int", "float", "bool"} THEN [err |-> "FontPartsError", v |-> v]
    ELSE [err |-> "", v |-> v]

\* BaseFont._get_base_path
GetBasePath(path) ==
    IF path # FNone THEN normalizeFilePath(path).v ELSE path

\* BaseFont.generateFormatToExtension
generateFormatToExtension(format, fallbackFormat) ==
    CASE format = <<"macttf">> -> <<".", "ttf">>
      [] format = <<"macttdfont">> -> <<".", "dfont">>
      [] format = <<"otfcff">> -> <<".", "otf">>
      [] format = <<"otfttf">> -> <<".", "ttf">>
      [] format = <<"ufo1">> -> <<".", "ufo">>
      [] format = <<"ufo2">> -> <<".", "ufo">>
      [] format = <<"ufo3">> -> <<".", "ufo">>
      [] format = <<"unixascii">> -> <<".", "pfa">>
      [] OTHER -> fallbackFormat

\* One entry of the call log.
Call(hook, path, showProgress, formatVersion, format) ==
    [hook |-> hook, path |-> path, showProgress |-> showProgress,
     formatVersion |-> formatVersion, format |-> format]

\* What a method leaves: the error it raised ("" for none) and the calls it
\* made, in order.
Outcome(err, calls) == [err |-> err, calls |-> calls]

\* BaseFont.save after its test of the location: the arguments normalized
\* and handed to _save.
SaveNormalized(path, showProgress, formatVersion) ==
    LET entry == Call("save", path, showProgress, formatVersion, FNone)
    IN  IF path # FNone /\ normalizeFilePath(path).err # ""
        THEN Outcome(normalizeFilePath(path).err, <<entry>>)
        ELSE IF formatVersion # FNone
                /\ normalizeFileFormatVersion(formatVersion).err # ""
        THEN Outcome(normalizeFileFormatVersion(formatVersion).err, <<entry>>)
        ELSE Outcome("",
                <<entry,
                  Call("_save",
                       IF path # FNone THEN normalizeFilePath(path).v ELSE path,
                       FBool(Truthy(showProgress)),
                       IF formatVersion # FNone
                       THEN normalizeFileFormatVersion(formatVersion).v
                       ELSE formatVersion,
                       FNone)>>)

\* A save that does not test whether there is a location to save to.
SaveAnywhere(selfPath, path, showProgress, formatVersion) ==
    SaveNormalized(path, showProgress, formatVersion)

\* BaseFont.save
Save(selfPath, path, showProgress, formatVersion) ==
    IF path = FNone /\ GetBasePath(selfPath) = FNone
    THEN Outcome("FontPartsError",
                 <<Call("save", path, showProgress, formatVersion, FNone)>>)
    ELSE SaveNormalized(path, showProgress, formatVersion)

\* A close that closes the font whether or not the save succeeded.
CloseAlways(selfPath, save) ==
    IF Truthy(save)
    THEN Outcome(Save(selfPath, FNone, FBool(FALSE), FNone).err,
                 <<Call("close", FNone, FNone, FNone, FNone)>>
                 \o Save(selfPath, FNone, FBool(FALSE), FNone).calls
                 \o <<Call("_close", FNone, FNone, FNone, FNone)>>)
    ELSE Outcome("", <<Call("close", FNone, FNone, FNone, FNone),
                       Call("_close", FNone, FNone, FNone, FNone)>>)

\* BaseFont.close
Close(selfPath, save) ==
    LET entry == Call("close", FNone, FNone, FNone, FNone)
        saved == Save(selfPath, FNone, FBool(FALSE), FNone)
    IN  IF Truthy(save)
        THEN IF saved.err # ""
             THEN Outcome(saved.err, <<entry>> \o saved.calls)
             ELSE Outcome("", <<entry>> \o saved.calls
                              \o <<Call("_close", FNone, FNone, FNone, FNone)>>)
        ELSE Outcome("", <<entry, Call("_close", FNone, FNone, FNone, FNone)>>)

\* BaseFont.generate after its tests of the format: the output path is
\* worked out and handed to _generate. A path that is no string makes
\* os.path.isdir raise TypeError, or answer False and normalizeFilePath raise
\* FontPartsError, with the Python that runs it: pathError is the one raised.
GenerateToPath(selfPath, format, path, pathError) ==
    LET entry == Call("generate", path, FNone, FNone, format)
        ext == generateFormatToExtension(format.p, <<".">> \o format.p)
        own == GetBasePath(selfPath)
    IN  IF path = FNone /\ own = FNone
        THEN Outcome("FontPartsError", <<entry>>)
        ELSE IF path = FNone
        THEN Outcome("", <<entry,
                 Call("_generate",
                      normalizeFilePath(FStr(splitext(own.p)[1] \o ext)).v,
                      FNone, FNone, format)>>)
        ELSE IF path.t # "str" THEN Outcome(pathError, <<entry>>)
        ELSE IF isdir(path.p)
        THEN IF own = FNone THEN Outcome("FontPartsError", <<entry>>)
             ELSE Outcome("", <<entry,
                      Call("_generate",
                           normalizeFilePath(
                               FStr(join(path.p, basename(own.p) \o ext))).v,
                           FNone, FNone, format)>>)
        ELSE Outcome("", <<entry,
                 Call("_generate", normalizeFilePath(path).v, FNone, FNone, format)>>)

\* A generate that tests only that the format is given, not its type.
GenerateAnyFormat(selfPath, format, path, pathError) ==
    IF format = FNone
    THEN Outcome("FontPartsError", <<Call("generate", path, FNone, FNone, format)>>)
    ELSE GenerateToPath(selfPath, format, path, pathError)

\* BaseFont.generate
Generate(selfPath, format, path, pathError) ==
    IF format = FNone
    THEN Outcome("FontPartsError", <<Call("generate", path, FNone, FNone, format)>>)
    ELSE IF format.t # "str"
    THEN Outcome("FontPartsError", <<Call("generate", path, FNone, FNone, format)>>)
    ELSE GenerateToPath(selfPath, format, path, pathError)

\* The arguments the callers of the model pass.
PathArgs ==
    {FNone, FInt(5), FStr(<<"/", "out">>), FStr(<<"/", "out", "/">>),
     FStr(<<"/", "new", "/", "a", ".", "otf">>)}

ShowProgressArgs == {FBool(FALSE), FBool(TRUE), FInt(1), FNone}

FormatVersionArgs == {FNone, FInt(2), FFloat(3), FStr(<<"3">>)}

FormatArgs ==
    {FNone, FInt(3), FStr(<<"otfcff">>), FStr(<<"ufo3">>), FStr(<<"xyz">>)}

SaveFlagArgs == {FBool(FALSE), FBool(TRUE)}

NoFileOp ==
    [op |-> "none", path |-> FNone, showProgress |-> FNone,
     formatVersion |-> FNone, format |-> FNone, save |-> FNone, err |-> ""]

FileIdle ==
    /\ fPath = FNone
    /\ fOpen = TRUE
    /\ fCalls = <<>>
    /\ fLast = NoFileOp

\* font = BaseFont(pathOrObject): a new font, or one opened from a file.
FileInit ==
    /\ fPath \in {FNone} \cup {FStr(chars) : chars \in FontPaths}
    /\ fOpen = TRUE
    /\ fCalls = <<>>
    /\ fLast = NoFileOp

\* font.save(path, showProgress, formatVersion). The environment's _save may
\* make the given path the font's own.
FontSave(path, showProgress, formatVersion, adopts) ==
    /\ fOpen
    /\ LET r == Save(fPath, path, showProgress, formatVersion)
       IN  /\ fCalls' = r.calls
           /\ fLast' = [NoFileOp EXCEPT !.op = "save", !.path = path,
                            !.showProgress = showProgress,
                            !.formatVersion = formatVersion, !.err = r.err]
           /\ fPath' = IF r.err = "" /\ path # FNone /\ adopts
                                 /\ path.p \in FontPaths
                       THEN path ELSE fPath
    /\ UNCHANGED fOpen
    /\ UNCHANGED nonFileVars

\* font.close(save)
FontClose(save) ==
    /\ fOpen
    /\ LET r == Close(fPath, save)
       IN  /\ fCalls' = r.calls
           /\ fLast' = [NoFileOp EXCEPT !.op = "close", !.save = save, !.err = r.err]
           /\ fOpen' = ~(\E k \in DOMAIN r.calls : r.calls[k].hook = "_close")
    /\ UNCHANGED fPath
    /\ UNCHANGED nonFileVars

\* font.generate(format, path)
FontGenerate(format, path, pathError) ==
    /\ fOpen
    /\ LET r == Generate(fPath, format, path, pathError)
       IN  /\ fCalls' = r.calls
           /\ fLast' = [NoFileOp EXCEPT !.op = "generate", !.format = format,
                            !.path = path, !.err = r.err]
    /\ UNCHANGED <<fPath, fOpen>>
    /\ UNCHANGED nonFileVars

\* A font is opened again after a close: from a file, or a new one.
FontOpen(path) ==
    /\ ~fOpen
    /\ fPath' = path
    /\ fOpen' = TRUE
    /\ fCalls' = <<>>
    /\ fLast' = [NoFileOp EXCEPT !.op = "open", !.path = path]
    /\ UNCHANGED nonFileVars

FontSaveStep ==
    \E path \in PathArgs \cup {FStr(chars) : chars \in FontPaths} :
        \E showProgress \in ShowProgressArgs :
            \E formatVersion \in FormatVersionArgs : \E adopts \in BOOLEAN :
                FontSave(path, showProgress, formatVersion, adopts)

FontCloseStep == \E save \in SaveFlagArgs : FontClose(save)

FontGenerateStep ==
    \E format \in FormatArgs : \E path \in PathArgs :
        \E pathError \in {"TypeError", "FontPartsError"} :
            FontGenerate(format, path, pathError)

FontOpenStep ==
    \E path \in {FNone} \cup {FStr(chars) : chars \in FontPaths} : FontOpen(path)

FileNext == FontSaveStep \/ FontCloseStep \/ FontGenerateStep \/ FontOpenStep

(***************************************************************************)
(* Claims about save, close and generate.                                  *)
(***************************************************************************)

\* The calls in a call log made to the hook named.
CallsTo(calls, hook) == SelectSeq(calls, LAMBDA c : c.hook = hook)

\* The names of the methods and hooks of a call log, in order.
Hooks(calls) == [k \in DOMAIN calls |-> calls[k].hook]

\* C6 as stated: save with no path on a font without a path raises
\* FontPartsError and never calls _save; in every other case _save is called
\* exactly once.
C6_SaveAlwaysCallsBackend ==
    [][fLast'.op = "save" =>
        IF fLast'.path = FNone /\ fPath = FNone
        THEN fLast'.err = "FontPartsError" /\ CallsTo(fCalls', "_save") = <<>>
        ELSE Len(CallsTo(fCalls', "_save")) = 1]_vars

\* C6 amended: save raises FontPartsError and never calls _save when no path
\* is given and the font has none, when the path given is not a string, or
\* when the formatVersion given is neither an int nor a float; in every other
\* case _save is called exactly once, with path None or the given path,
\* showProgress coerced to a bool and formatVersion None or the given number.
C6_SaveCallsBackendOnce ==
    [][fLast'.op = "save" =>
        IF \/ fLast'.path = FNone /\ fPath = FNone
           \/ fLast'.path.t \notin {"none", "str"}
           \/ fLast'.formatVersion.t \notin {"none", "int", "float", "bool"}
        THEN /\ fLast'.err = "FontPartsError"
             /\ CallsTo(fCalls', "_save") = <<>>
        ELSE /\ fLast'.err = ""
             /\ Len(CallsTo(fCalls', "_save")) = 1
             /\ LET c == CallsTo(fCalls', "_save")[1]
                IN  /\ c.path = fLast'.path
                    /\ c.showProgress \in {FBool(TRUE), FBool(FALSE)}
                    /\ c.showProgress.i = 1 <=>
                          fLast'.showProgress \in {FBool(TRUE), FInt(1)}
                    /\ c.formatVersion = fLast'.formatVersion]_vars

\* C6 witness: a font without a path has been saved to a path given, the
\* progress flag 1 coerced to True.
C6_Witness ==
    /\ fLast.op = "save" /\ fLast.err = ""
    /\ fLast.showProgress = FInt(1)
    /\ Len(CallsTo(fCalls, "_save")) = 1
    /\ CallsTo(fCalls, "_save")[1].showProgress = FBool(TRUE)
    /\ CallsTo(fCalls, "_save")[1].path.t = "str"

\* C7: close(save=True) calls save and calls _close only after save has
\* returned; close(save=False) never calls save; when the save fails (the
\* font has no path) the error propagates, _close is not called and the font
\* stays open.
C7_CloseSavesFirst ==
    [][fLast'.op = "close" =>
        IF fLast'.save = FBool(TRUE)
        THEN IF fPath = FNone
             THEN /\ fLast'.err = "FontPartsError"
                  /\ Hooks(fCalls') = <<"close", "save">>
                  /\ fOpen'
             ELSE /\ fLast'.err = ""
                  /\ Hooks(fCalls') = <<"close", "save", "_save", "_close">>
                  /\ ~fOpen'
        ELSE /\ fLast'.err = ""
             /\ Hooks(fCalls') = <<"close", "_close">>
             /\ ~fOpen']_vars

\* C7 witness: close(save=True) on a font without a path has failed and the
\* font is still open.
C7_Witness ==
    /\ fLast.op = "close" /\ fLast.save = FBool(TRUE)
    /\ fLast.err = "FontPartsError"
    /\ fPath = FNone /\ fOpen

\* The cases in which the claim has generate raise.
GenerateRefused(selfPath, format, path) ==
    \/ format = FNone
    \/ format.t # "str"
    \/ path = FNone /\ selfPath = FNone
    \/ path.t = "str" /\ isdir(path.p) /\ selfPath = FNone

\* C8 as stated: generate raises FontPartsError without calling _generate
\* when format is None or not a string, when both paths are None, or when
\* path is a directory and the font has no path; in every other case
\* _generate is called exactly once.
C8_GenerateAlwaysCallsBackend ==
    [][fLast'.op = "generate" =>
        IF GenerateRefused(fPath, fLast'.format, fLast'.path)
        THEN fLast'.err = "FontPartsError" /\ CallsTo(fCalls', "_generate") = <<>>
        ELSE Len(CallsTo(fCalls', "_generate")) = 1]_vars

\* C8 amended: as stated, and generate also raises (FontPartsError or
\* TypeError) without calling _generate when the path given is neither None
\* nor a string; in every other case _generate is called exactly once, with
\* the format given and a string path.
C8_GenerateCallsBackendOnce ==
    [][fLast'.op = "generate" =>
        IF GenerateRefused(fPath, fLast'.format, fLast'.path)
        THEN fLast'.err = "FontPartsError" /\ CallsTo(fCalls', "_generate") = <<>>
        ELSE IF fLast'.path.t \notin {"none", "str"}
        THEN /\ fLast'.err \in {"FontPartsError", "TypeError"}
             /\ CallsTo(fCalls', "_generate") = <<>>
        ELSE /\ fLast'.err = ""
             /\ Len(CallsTo(fCalls', "_generate")) = 1
             /\ LET c == CallsTo(fCalls', "_generate")[1]
                IN  /\ c.format = fLast'.format
                    /\ c.path.t = "str"
                    /\ (fLast'.path.t = "str" /\ ~isdir(fLast'.path.p)) =>
                          c.path = fLast'.path]_vars

\* C8 witness: a font with a path has been generated into a directory.
C8_Witness ==
    /\ fLast.op = "generate" /\ fLast.err = ""
    /\ fLast.path = FStr(<<"/", "out">>)
    /\ Len(CallsTo(fCalls, "_generate")) = 1

\* The extension the claim gives each format.
FormatExtension(format) ==
    CASE format = <<"otfcff">> -> <<".", "otf">>
      [] format = <<"ufo3">> -> <<".", "ufo">>
      [] OTHER -> <<".">> \o format

\* C9: when generate is given no path, or a directory, the file it names is
\* the font's file name with its extension replaced by the format's: the
\* same name in both cases.
C9_SameFileName ==
    [][(/\ fLast'.op = "generate"
        /\ fLast'.err = ""
        /\ \/ fLast'.path = FNone
           \/ fLast'.path.t = "str" /\ isdir(fLast'.path.p)) =>
            basename(CallsTo(fCalls', "_generate")[1].path.p)
                = basename(splitext(fPath.p)[1]) \o FormatExtension(fLast'.format.p)]_vars

(***************************************************************************)
(* BaseFont layers, guidelines and copyData (font.py), over a reference    *)
(* environment: _newLayer appends an empty layer, _removeLayer deletes     *)
(* one, _set_layerOrder and _set_defaultLayer store what they are given,   *)
(* _appendGuideline appends a guideline.                                   *)
(***************************************************************************)

\* The number of font slots: the fonts that can exist at once.
MaxFonts == 2

\* The number of operations made on the fonts.
MaxFontSteps == 4

FontSlots == 1..MaxFonts

\* The name of the layer a new font starts with, and the other layer names
\* the callers use.
DefaultLayerName == "public.default"

LayerNames == {DefaultLayerName, "a", "b"}

\* Color arguments: None, a list of four components, and one out of range.
CNone == [t |-> "none", c |-> <<>>]
CList(c) == [t |-> "list", c |-> c]
CTuple(c) == [t |-> "tuple", c |-> c]

ColorArgs == {CNone, CList(<<1, 0, 0, 1>>), CTuple(<<2, 0, 0, 1>>)}

\* normalizers.normalizeColor: a tuple or list of four values between 0 and
\* 1, returned as a tuple.
normalizeColor(value) ==
    IF value.t \notin {"tuple", "list"} THEN [err |-> "FontPartsError", v |-> value]
    ELSE IF Len(value.c) # 4 THEN [err |-> "FontPartsError", v |-> value]
    ELSE IF \E k \in DOMAIN value.c : value.c[k] < 0 \/ value.c[k] > 1
    THEN [err |-> "FontPartsError", v |-> value]
    ELSE [err |-> "", v |-> CTuple(value.c)]

\* normalizers.normalizeLayerName: a string of at least one character.
normalizeLayerName(value) ==
    IF value = "" THEN [err |-> "FontPartsError", v |-> value]
    ELSE [err |-> "", v |-> value]

\* normalizers.normalizeLayerOrder
normalizeLayerOrder(value, font) == value

\* normalizers.normalizeDefaultLayer: the name must be in font.layerOrder.
normalizeDefaultLayer(value, font) ==
    IF \A k \in DOMAIN font.order : font.order[k] # value
    THEN [err |-> "FontPartsError", v |-> value]
    ELSE [err |-> "", v |-> value]

Range(seq) == {seq[k] : k \in DOMAIN seq}

NoLayer == [data |-> -1, color |-> CNone]

\* The layer _newLayer makes: no glyphs.
EmptyLayer(color) == [data |-> 0, color |-> color]

\* The guideline appendGuideline((0, 0), 0) makes.
BlankGuideline == "g0"

GuidelineArgs == {"g1", "g2"}

NoFont ==
    [order |-> <<>>, layers |-> [n \in LayerNames |-> NoLayer],
     default |-> "", guidelines |-> <<>>, sub |-> -1, glyphOrder |-> -1]

\* BaseFont(): a new font in slot k, with its default layer and the info,
\* groups, kerning, features, lib and glyph order of its own.
NewFontObject(k) ==
    [order |-> <<DefaultLayerName>>,
     layers |-> [n \in LayerNames |->
                    IF n = DefaultLayerName THEN EmptyLayer(CNone) ELSE NoLayer],
     default |-> DefaultLayerName, guidelines |-> <<>>, sub |-> k, glyphOrder |-> k]

\* What a font method leaves: the font, the error raised ("" for none) and
\* the hooks called, in order, each with the layer name it was given.
FontResult(font, err, calls) == [font |-> font, err |-> err, calls |-> calls]

Hook(hook, name) == [hook |-> hook, name |-> name]

\* BaseFont._get_base_layerOrder
GetLayerOrder(font) == normalizeLayerOrder(font.order, font)

\* BaseFont._set_base_layerOrder, the environment storing the list.
SetLayerOrder(font, value) ==
    [font EXCEPT !.order = normalizeLayerOrder(value, font)]

\* A newLayer that does not look for an existing layer of the name.
NewLayerUnchecked(font, name, color) ==
    IF normalizeLayerName(name).err # ""
    THEN FontResult(font, normalizeLayerName(name).err, <<>>)
    ELSE IF color # CNone /\ normalizeColor(color).err # ""
    THEN FontResult(font, normalizeColor(color).err, <<>>)
    ELSE FontResult(
            [font EXCEPT !.order = Append(font.order, name),
                         !.layers[name] = EmptyLayer(
                            IF color # CNone THEN normalizeColor(color).v ELSE color)],
            "", <<Hook("_newLayer", name)>>)

\* BaseFont.newLayer
NewLayer(font, name, color) ==
    IF normalizeLayerName(name).err # ""
    THEN FontResult(font, normalizeLayerName(name).err, <<>>)
    ELSE IF name \in Range(GetLayerOrder(font))
    THEN IF color # CNone
         THEN IF normalizeColor(color).err # ""
              THEN FontResult(font, normalizeColor(color).err, <<Hook("_getLayer", name)>>)
              ELSE FontResult(
                      [font EXCEPT !.layers[name].color = normalizeColor(color).v],
                      "", <<Hook("_getLayer", name)>>)
         ELSE FontResult(font, "", <<Hook("_getLayer", name)>>)
    ELSE IF color # CNone /\ normalizeColor(color).err # ""
    THEN FontResult(font, normalizeColor(color).err, <<>>)
    ELSE FontResult(
            [font EXCEPT !.order = Append(font.order, name),
                         !.layers[name] = EmptyLayer(
                            IF color # CNone THEN normalizeColor(color).v ELSE color)],
            "", <<Hook("_newLayer", name)>>)

\* BaseFont.removeLayer; the environment refuses to delete the default
\* layer.
RemoveLayer(font, name) ==
    IF normalizeLayerName(name).err # ""
    THEN FontResult(font, normalizeLayerName(name).err, <<>>)
    ELSE IF name \notin Range(GetLayerOrder(font))
    THEN FontResult(font, "FontPartsError", <<>>)
    ELSE IF name = font.default
    THEN FontResult(font, "FontPartsError", <<Hook("_removeLayer", name)>>)
    ELSE FontResult(
            [font EXCEPT !.order = SelectSeq(font.order, LAMBDA n : n # name),
                         !.layers[name] = NoLayer],
            "", <<Hook("_removeLayer", name)>>)

\* BaseFont._set_base_defaultLayer, the environment storing the name.
SetDefaultLayer(font, value) ==
    IF normalizeDefaultLayer(value, font).err # ""
    THEN FontResult(font, normalizeDefaultLayer(value, font).err, <<>>)
    ELSE FontResult([font EXCEPT !.default = normalizeDefaultLayer(value, font).v],
                    "", <<Hook("_set_defaultLayer", value)>>)

\* BaseFont.appendGuideline
AppendGuideline(font, guideline) ==
    [font EXCEPT !.guidelines = Append(font.guidelines, guideline)]

RECURSIVE CopyLayers(_, _, _, _)
\* BaseFont.copyData, the loop over source.layerOrder: the layer of each
\* name is looked up or made, and given the source layer's data.
CopyLayers(names, self, source, calls) ==
    IF names = <<>> THEN FontResult(self, "", calls)
    ELSE LET layerName == Head(names)
             got == IF layerName \in Range(GetLayerOrder(self))
                    THEN FontResult(self, "", <<Hook("_getLayer", layerName)>>)
                    ELSE NewLayer(self, layerName, CNone)
         IN  IF got.err # "" THEN FontResult(got.font, got.err, calls \o got.calls)
             ELSE CopyLayers(Tail(names),
                     [got.font EXCEPT !.layers[layerName] = source.layers[layerName]],
                     source, calls \o got.calls)

\* BaseFont.copyData, the loop over the guidelines: for each guideline of
\* self.guidelines a blank guideline is appended and given its data.
CopyGuidelines(self, source) ==
    [self EXCEPT !.guidelines =
        self.guidelines \o [k \in DOMAIN self.guidelines |-> self.guidelines[k]]]

\* BaseObject.copyData on BaseFont.copyAttributes: info, groups, kerning,
\* features and lib copy themselves from the source's; layerOrder,
\* defaultLayer and glyphOrder are read from both fonts and set.
CopyFontAttributes(self, source, calls) ==
    LET subs == [self EXCEPT !.sub = source.sub]
        ordered == SetLayerOrder(subs, GetLayerOrder(source))
        ownDefault == normalizeDefaultLayer(ordered.default, ordered)
        sourceDefault == normalizeDefaultLayer(source.default, source)
        newDefault == normalizeDefaultLayer(sourceDefault.v, ordered)
    IN  IF ownDefault.err # "" THEN FontResult(ordered, ownDefault.err, calls)
        ELSE IF sourceDefault.err # "" THEN FontResult(ordered, sourceDefault.err, calls)
        ELSE IF newDefault.err # "" THEN FontResult(ordered, newDefault.err, calls)
        ELSE FontResult(
                [ordered EXCEPT !.default = newDefault.v,
                                !.glyphOrder = source.glyphOrder],
                "", calls)

\* BaseFont.copyData
FontCopyData(self, source) ==
    LET layered == CopyLayers(GetLayerOrder(source), self, source, <<>>)
    IN  IF layered.err # "" THEN layered
        ELSE CopyFontAttributes(CopyGuidelines(layered.font, source), source,
                                layered.calls)

NoFontOp ==
    [op |-> "none", font |-> 0, source |-> 0, name |-> "", color |-> CNone,
     err |-> "", calls |-> <<>>]

LayerIdle ==
    /\ lFonts = [k \in FontSlots |-> IF k = 1 THEN NewFontObject(1) ELSE NoFont]
    /\ lLast = NoFontOp
    /\ lSteps = 0

LayerInit == LayerIdle

LiveFonts == {k \in FontSlots : lFonts[k] # NoFont}

FreeFontSlots == {k \in FontSlots : lFonts[k] = NoFont}

FirstFreeFont == CHOOSE k \in FreeFontSlots : \A j \in FreeFontSlots : k <= j

\* font = BaseFont()
FontNew ==
    /\ lSteps < MaxFontSteps
    /\ FreeFontSlots # {}
    /\ lFonts' = [lFonts EXCEPT ![FirstFreeFont] = NewFontObject(FirstFreeFont)]
    /\ lLast' = [NoFontOp EXCEPT !.op = "new", !.font = FirstFreeFont]
    /\ lSteps' = lSteps + 1
    /\ UNCHANGED nonLayerVars

\* font.newLayer(name, color)
FontNewLayer(k, name, color) ==
    /\ lSteps < MaxFontSteps
    /\ k \in LiveFonts
    /\ LET r == NewLayer(lFonts[k], name, color)
       IN  /\ lFonts' = [lFonts EXCEPT ![k] = r.font]
           /\ lLast' = [NoFontOp EXCEPT !.op = "newLayer", !.font = k, !.name = name,
                            !.color = color, !.err = r.err, !.calls = r.calls]
    /\ lSteps' = lSteps + 1
    /\ UNCHANGED nonLayerVars

\* font.removeLayer(name)
FontRemoveLayer(k, name) ==
    /\ lSteps < MaxFontSteps
    /\ k \in LiveFonts
    /\ LET r == RemoveLayer(lFonts[k], name)
       IN  /\ lFonts' = [lFonts EXCEPT ![k] = r.font]
           /\ lLast' = [NoFontOp EXCEPT !.op = "removeLayer", !.font = k,
                            !.name = name, !.err = r.err, !.calls = r.calls]
    /\ lSteps' = lSteps + 1
    /\ UNCHANGED nonLayerVars

\* Glyphs are drawn in a layer of the font: its data become the font's own.
FontDrawLayer(k, name) ==
    /\ lSteps < MaxFontSteps
    /\ k \in LiveFonts
    /\ name \in Range(lFonts[k].order)
    /\ lFonts[k].layers[name] # NoLayer
    /\ lFonts' = [lFonts EXCEPT ![k].layers[name].data = k]
    /\ lLast' = [NoFontOp EXCEPT !.op = "draw", !.font = k, !.name = name]
    /\ lSteps' = lSteps + 1
    /\ UNCHANGED nonLayerVars

\* font.defaultLayer = name
FontSetDefaultLayer(k, name) ==
    /\ lSteps < MaxFontSteps
    /\ k \in LiveFonts
    /\ LET r == SetDefaultLayer(lFonts[k], name)
       IN  /\ lFonts' = [lFonts EXCEPT ![k] = r.font]
           /\ lLast' = [NoFontOp EXCEPT !.op = "defaultLayer", !.font = k,
                            !.name = name, !.err = r.err, !.calls = r.calls]
    /\ lSteps' = lSteps + 1
    /\ UNCHANGED nonLayerVars

\* font.appendGuideline(position, angle)
FontAppendGuideline(k, guideline) ==
    /\ lSteps < MaxFontSteps
    /\ k \in LiveFonts
    /\ lFonts' = [lFonts EXCEPT ![k] = AppendGuideline(lFonts[k], guideline)]
    /\ lLast' = [NoFontOp EXCEPT !.op = "appendGuideline", !.font = k]
    /\ lSteps' = lSteps + 1
    /\ UNCHANGED nonLayerVars

\* font.copyData(source)
FontCopyDataFrom(k, source) ==
    /\ lSteps < MaxFontSteps
    /\ k \in LiveFonts
    /\ source \in LiveFonts
    /\ k # source
    /\ LET r == FontCopyData(lFonts[k], lFonts[source])
       IN  /\ lFonts' = [lFonts EXCEPT ![k] = r.font]
           /\ lLast' = [NoFontOp EXCEPT !.op = "copyData", !.font = k,
                            !.source = source, !.err = r.err, !.calls = r.calls]
    /\ lSteps' = lSteps + 1
    /\ UNCHANGED nonLayerVars

\* copied = font.copy(): BaseObject.copy, a new font given the data.
FontCopy(source) ==
    /\ lSteps < MaxFontSteps
    /\ source \in LiveFonts
    /\ FreeFontSlots # {}
    /\ LET r == FontCopyData(NewFontObject(FirstFreeFont), lFonts[source])
       IN  /\ lFonts' = [lFonts EXCEPT ![FirstFreeFont] = r.font]
           /\ lLast' = [NoFontOp EXCEPT !.op = "copy", !.font = FirstFreeFont,
                            !.source = source, !.err = r.err, !.calls = r.calls]
    /\ lSteps' = lSteps + 1
    /\ UNCHANGED nonLayerVars

FontNewStep == FontNew

\* The names the callers pass: the layer names and the empty string.
NameArgs == LayerNames \cup {""}

FontNewLayerStep ==
    \E k \in FontSlots : \E name \in NameArgs : \E color \in ColorArgs :
        FontNewLayer(k, name, color)

FontRemoveLayerStep ==
    \E k \in FontSlots : \E name \in NameArgs : FontRemoveLayer(k, name)

FontSetDefaultLayerStep ==
    \E k \in FontSlots : \E name \in LayerNames : FontSetDefaultLayer(k, name)

FontDrawLayerStep ==
    \E k \in FontSlots : \E name \in LayerNames : FontDrawLayer(k, name)

FontAppendGuidelineStep ==
    \E k \in FontSlots : \E guideline \in GuidelineArgs :
        FontAppendGuideline(k, guideline)

FontCopyDataStep ==
    \E k \in FontSlots : \E source \in FontSlots : FontCopyDataFrom(k, source)

FontCopyStep == \E source \in FontSlots : FontCopy(source)

\* The layer operations alone.
LayerNext == FontNewStep \/ FontNewLayerStep \/ FontRemoveLayerStep

\* The layer operations, drawing, guidelines and copies.
FontCopyNext ==
    \/ FontNewStep
    \/ FontNewLayerStep
    \/ FontRemoveLayerStep
    \/ FontSetDefaultLayerStep
    \/ FontDrawLayerStep
    \/ FontAppendGuidelineStep
    \/ FontCopyDataStep
    \/ FontCopyStep

(***************************************************************************)
(* Claims about layers, guidelines and copyData.                           *)
(***************************************************************************)

NoDuplicates(seq) == \A i, j \in DOMAIN seq : seq[i] = seq[j] => i = j

HookCalls(calls, hook) == {k \in DOMAIN calls : calls[k].hook = hook}

\* The guidelines of the destination before font.copyData(source) or
\* font.copy(): those lFonts holds, or none for the new font of a copy.
GuidelinesBefore == IF lLast'.op = "copy" THEN <<>> ELSE lFonts[lLast'.font].guidelines

\* C4: after copyData(source), and after copy(), the destination has gained
\* exactly one new guideline per guideline of the source, each with the data
\* of the corresponding source guideline, after the guidelines it had.
C4_GuidelinesCopied ==
    [][lLast'.op \in {"copyData", "copy"} =>
         lFonts'[lLast'.font].guidelines =
             GuidelinesBefore \o lFonts[lLast'.source].guidelines]_vars

\* The layer names of the destination before font.copyData(source) or
\* font.copy(): those lFonts holds, or the default layer of a new font.
OrderBefore ==
    IF lLast'.op = "copy" THEN <<DefaultLayerName>> ELSE lFonts[lLast'.font].order

\* C5: copyData(source) gives the layer of every name of source.layerOrder
\* the source layer's data, reusing the destination's layer of the name if
\* there is one and making one (once) otherwise; afterwards every source
\* layer name is in the destination's layerOrder, no name is there twice,
\* and the names the destination had before are still there.
C5_LayersCopiedAndKept ==
    [][lLast'.op \in {"copyData", "copy"} =>
         LET self == lFonts'[lLast'.font]
             source == lFonts[lLast'.source]
             calls == lLast'.calls
         IN  /\ \A n \in Range(source.order) :
                   /\ self.layers[n] = source.layers[n]
                   /\ n \in Range(self.order)
                   /\ n \in Range(OrderBefore) =>
                         /\ Cardinality({k \in HookCalls(calls, "_getLayer") :
                                            calls[k].name = n}) = 1
                         /\ \A k \in HookCalls(calls, "_newLayer") : calls[k].name # n
                   /\ n \notin Range(OrderBefore) =>
                         /\ Cardinality({k \in HookCalls(calls, "_newLayer") :
                                            calls[k].name = n}) = 1
                         /\ \A k \in HookCalls(calls, "_getLayer") : calls[k].name # n
             /\ NoDuplicates(self.order)
             /\ \A n \in Range(OrderBefore) : n \in Range(self.order)]_vars

MaxParents == 2

\* The number of child objects (points, segments, features) ever made.
MaxChildren == 1

\* The number of references to one parent the callers hold at once.
MaxHolders == 2

ParentSlots == 1..MaxParents

ChildSlots == 1..MaxChildren

ParentKinds == {"contour", "font"}

ChildClasses == {"BasePoint", "BaseSegment", "BaseFeatures"}

\* The parent a child of the class has: a contour, or a font.
ParentKindOf(cls) == IF cls = "BaseFeatures" THEN "font" ELSE "contour"

\* None as an object; the other objects are the parents' slots.
NoObject == 0

\* _contour = None / _font = None
RefNone == [t |-> "none", to |-> NoObject]

\* A back-reference that is the parent object itself.
StrongRef(obj) == [t |-> "object", to |-> obj]

\* weakref.ref(contour) / weakref.ref(font)
WeakRef(obj) == [t |-> "weakref", to |-> obj]

NoParentObject == [state |-> "free", kind |-> "", holders |-> 0]

NoChildObject == [cls |-> "", ref |-> RefNone]

\* self._contour() / self._font(): a weak reference gives its referent
\* while it lives and None afterwards.
CallRef(ref, parents) ==
    IF ref.t = "weakref"
    THEN IF parents[ref.to].state = "alive" THEN ref.to ELSE NoObject
    ELSE ref.to

\* BasePoint._get_contour, BaseSegment._get_contour, BaseFeatures._get_font
GetParent(child, parents) ==
    IF child.ref = RefNone THEN NoObject ELSE CallRef(child.ref, parents)

\* BasePoint._set_contour, BaseSegment._set_contour
SetContourRef(child, contour) ==
    IF child.ref # RefNone THEN [child |-> child, err |-> "AssertionError"]
    ELSE [child |-> [child EXCEPT !.ref = IF contour # NoObject
                                           THEN WeakRef(contour) ELSE RefNone],
          err |-> ""]

\* BaseFeatures._set_font
SetFontRef(child, font, parents) ==
    IF ~(child.ref = RefNone \/ CallRef(child.ref, parents) = font)
    THEN [child |-> child, err |-> "AssertionError"]
    ELSE [child |-> [child EXCEPT !.ref = IF font # NoObject
                                           THEN WeakRef(font) ELSE RefNone],
          err |-> ""]

SetParent(child, obj, parents) ==
    IF child.cls = "BaseFeatures" THEN SetFontRef(child, obj, parents)
    ELSE SetContourRef(child, obj)

\* Whether something keeps the parent alive: a caller holding it, or an
\* object whose attribute is the parent itself.
StronglyHeld(p, parents, children) ==
    \/ parents[p].holders > 0
    \/ \E c \in ChildSlots : children[c].ref.t = "object" /\ children[c].ref.to = p

\* The parent is collected if nothing keeps it alive.
Collected(p, parents, children) ==
    IF parents[p].state = "alive" /\ ~StronglyHeld(p, parents, children)
    THEN [parents EXCEPT ![p].state = "dead"]
    ELSE parents

NoWeakOp ==
    [op |-> "none", child |-> 0, parent |-> 0, result |-> NoObject, err |-> "",
     collect |-> FALSE]

WeakIdle ==
    /\ wParents = [p \in ParentSlots |-> NoParentObject]
    /\ wChildren = [c \in ChildSlots |-> NoChildObject]
    /\ wLast = NoWeakOp

WeakInit == WeakIdle

FreeParents == {p \in ParentSlots : wParents[p].state = "free"}

FreeChildren == {c \in ChildSlots : wChildren[c].cls = ""}

\* A caller makes a contour or a font and holds it.
NewParent(kind) ==
    /\ FreeParents # {}
    /\ LET p == CHOOSE q \in FreeParents : \A r \in FreeParents : q <= r
       IN  /\ wParents' = [wParents EXCEPT ![p] =
                              [state |-> "alive", kind |-> kind, holders |-> 1]]
           /\ wLast' = [NoWeakOp EXCEPT !.op = "newParent", !.parent = p]
    /\ UNCHANGED <<wChildren, nonWeakVars>>

\* A caller makes an orphan point, segment or features object and holds it.
NewChild(cls) ==
    /\ FreeChildren # {}
    /\ LET c == CHOOSE d \in FreeChildren : \A e \in FreeChildren : d <= e
       IN  /\ wChildren' = [wChildren EXCEPT ![c] = [cls |-> cls, ref |-> RefNone]]
           /\ wLast' = [NoWeakOp EXCEPT !.op = "newChild", !.child = c]
    /\ UNCHANGED <<wParents, nonWeakVars>>

\* child.contour = obj / child.font = obj, with None or a parent of the
\* child's kind that the caller holds.
AssignParent(c, obj) ==
    /\ wChildren[c].cls # ""
    /\ obj # NoObject =>
          /\ wParents[obj].state = "alive"
          /\ wParents[obj].holders > 0
          /\ wParents[obj].kind = ParentKindOf(wChildren[c].cls)
    /\ LET r == SetParent(wChildren[c], obj, wParents)
       IN  /\ wChildren' = [wChildren EXCEPT ![c] = r.child]
           /\ wLast' = [NoWeakOp EXCEPT !.op = "assign", !.child = c,
                            !.parent = obj, !.err = r.err]
    /\ UNCHANGED <<wParents, nonWeakVars>>

\* child.contour / child.font is read; the caller keeps what it got, or not.
ReadParent(c, keep) ==
    /\ wChildren[c].cls # ""
    /\ LET result == GetParent(wChildren[c], wParents)
       IN  /\ wLast' = [NoWeakOp EXCEPT !.op = "read", !.child = c, !.result = result]
           /\ wParents' =
                 IF keep /\ result # NoObject /\ wParents[result].holders < MaxHolders
                 THEN [wParents EXCEPT ![result].holders = @ + 1]
                 ELSE wParents
    /\ UNCHANGED <<wChildren, nonWeakVars>>

\* A caller drops a reference to the parent; when it was the last one the
\* interpreter collects the parent then (collect) or leaves it for later.
ReleaseParent(p, collect) ==
    /\ wParents[p].state = "alive"
    /\ wParents[p].holders > 0
    /\ LET dropped == [wParents EXCEPT ![p].holders = @ - 1]
       IN  wParents' = IF collect THEN Collected(p, dropped, wChildren) ELSE dropped
    /\ wLast' = [NoWeakOp EXCEPT !.op = "release", !.parent = p, !.collect = collect]
    /\ UNCHANGED <<wChildren, nonWeakVars>>

\* The interpreter collects a parent nothing keeps alive.
CollectParent(p) ==
    /\ wParents[p].state = "alive"
    /\ ~StronglyHeld(p, wParents, wChildren)
    /\ wParents' = Collected(p, wParents, wChildren)
    /\ wLast' = [NoWeakOp EXCEPT !.op = "collect", !.parent = p, !.collect = TRUE]
    /\ UNCHANGED <<wChildren, nonWeakVars>>

NewParentStep == \E kind \in ParentKinds : NewParent(kind)

NewChildStep == \E cls \in ChildClasses : NewChild(cls)

AssignParentStep ==
    \E c \in ChildSlots : \E obj \in ParentSlots \cup {NoObject} : AssignParent(c, obj)

ReadParentStep == \E c \in ChildSlots : \E keep \in BOOLEAN : ReadParent(c, keep)

ReleaseParentStep ==
    \E p \in ParentSlots : \E collect \in BOOLEAN : ReleaseParent(p, collect)

CollectParentStep == \E p \in ParentSlots : CollectParent(p)

WeakNext ==
    \/ NewParentStep
    \/ NewChildStep
    \/ AssignParentStep
    \/ ReadParentStep
    \/ ReleaseParentStep
    \/ CollectParentStep

(***************************************************************************)
(* Claims about parent back-references.                                    *)
(***************************************************************************)

\* C11: a child stores its parent only as a weak reference or None; when the
\* callers drop their last reference to a parent and the interpreter
\* collects at once, the parent is gone whatever children refer to it, and a
\* parent nobody holds can always be collected; reading child.contour or
\* child.font gives the parent while it lives and None once it is gone.
C11_BackReferenceIsWeak ==
    [][/\ \A c \in ChildSlots : wChildren'[c].ref.t \in {"none", "weakref"}
       /\ (wLast'.op = "release" /\ wLast'.collect
             /\ wParents'[wLast'.parent].holders = 0) =>
              wParents'[wLast'.parent].state = "dead"
       /\ \A p \in ParentSlots :
              (wParents'[p].state = "alive" /\ wParents'[p].holders = 0) =>
                  ~StronglyHeld(p, wParents', wChildren')
       /\ wLast'.op = "read" =>
              LET ref == wChildren[wLast'.child].ref
              IN  /\ ref.t = "none" => wLast'.result = NoObject
                  /\ (ref.t # "none" /\ wParents[ref.to].state = "alive") =>
                        wLast'.result = ref.to
                  /\ (ref.t # "none" /\ wParents[ref.to].state # "alive") =>
                        wLast'.result = NoObject]_vars

\* A point whose contour was collected while the point referred to it was
\* asked for its contour and gave None.
C11_Witness ==
    /\ wLast.op = "read"
    /\ wLast.result = NoObject
    /\ wChildren[wLast.child].cls = "BasePoint"
    /\ wChildren[wLast.child].ref = [t |-> "weakref", to |-> 1]
    /\ wParents[1].state = "dead"

(***************************************************************************)
(* The validators (validators.py), over Python 2 values: a scalar has a    *)
(* type and a number, a string its character codes, a tuple or list its    *)
(* items.                                                                  *)
(***************************************************************************)
PyNone == [t |-> "NoneType", n |-> 0, items |-> <<>>]
PyInt(n) == [t |-> "int", n |-> n, items |-> <<>>]
PyFloat(n) == [t |-> "float", n |-> n, items |-> <<>>]
PyBool(b) == [t |-> "bool", n |-> IF b THEN 1 ELSE 0, items |-> <<>>]
PyComplex(n) == [t |-> "complex", n |-> n, items |-> <<>>]
PyStr(codes) == [t |-> "str", n |-> 0, items |-> codes]
PyTuple(items) == [t |-> "tuple", n |-> 0, items |-> items]
PyList(items) == [t |-> "list", n |-> 0, items |-> items]

\* isinstance(value, int): bool is a subclass of int.
IsInt(value) == value.t \in {"int", "bool"}

\* isinstance(value, (int, float))
IsNumber(value) == value.t \in {"int", "bool", "float"}

\* isinstance(value, (tuple, list))
IsSequence(value) == value.t \in {"tuple", "list"}

\* float(value)
ToFloat(value) == PyFloat(value.n)

\* tuple(value)
ToTuple(value) == PyTuple(value.items)

\* v < k and v > k for an int k: numbers compare by value, None is below
\* every number, strings and sequences are above every number, and a
\* complex number has no order (TypeError).
Unordered(v) == v.t = "complex"

LessThan(v, k) ==
    IF IsNumber(v) THEN v.n < k ELSE v.t = "NoneType"

GreaterThan(v, k) ==
    IF IsNumber(v) THEN v.n > k ELSE v.t # "NoneType"

\* What a validator does: the exception it raises ("" for none) and the
\* value it returns.
Raised(err) == [err |-> err, v |-> PyNone]

Returned(value) == [err |-> "", v |-> value]

\* The longest identifier validateIdentifier accepts.
MaxIdentifierLength == 100

\* validateIndex
validateIndex(value) ==
    IF value # PyNone /\ ~IsInt(value) THEN Raised("FontPartsError")
    ELSE Returned(value)

\* validateIdentifier
validateIdentifier(value) ==
    IF value.t # "str" THEN Raised("FontPartsError")
    ELSE IF Len(value.items) > MaxIdentifierLength THEN Raised("FontPartsError")
    ELSE IF \E k \in DOMAIN value.items : value.items[k] < 32 \/ value.items[k] > 126
    THEN Raised("FontPartsError")
    ELSE Returned(value)

\* validateX
validateX(value) ==
    IF ~IsNumber(value) THEN Raised("FontPartsError") ELSE Returned(value)

\* validateY
validateY(value) ==
    IF ~IsNumber(value) THEN Raised("FontPartsError") ELSE Returned(value)

\* validateCoordinateTuple
validateCoordinateTuple(value) ==
    IF ~IsSequence(value) THEN Raised("FontPartsError")
    ELSE IF Len(value.items) # 2 THEN Raised("FontPartsError")
    ELSE IF validateX(value.items[1]).err # "" THEN validateX(value.items[1])
    ELSE IF validateY(value.items[2]).err # "" THEN validateY(value.items[2])
    ELSE Returned(PyTuple(<<validateX(value.items[1]).v, validateY(value.items[2]).v>>))

RECURSIVE ColorComponents(_)
\* validateColor, the loop over the components: the first component that
\* cannot be compared or is out of range ends it.
ColorComponents(items) ==
    IF items = <<>> THEN ""
    ELSE IF Unordered(Head(items)) THEN "TypeError"
    ELSE IF LessThan(Head(items), 0) \/ GreaterThan(Head(items), 1)
    THEN "FontPartsError"
    ELSE ColorComponents(Tail(items))

\* validateColor
validateColor(value) ==
    IF ~IsSequence(value) THEN Raised("FontPartsError")
    ELSE IF Len(value.items) # 4 THEN Raised("FontPartsError")
    ELSE IF ColorComponents(value.items) # "" THEN Raised(ColorComponents(value.items))
    ELSE Returned(ToTuple(value))

\* validateTransformationMatrix
validateTransformationMatrix(value) ==
    IF ~IsSequence(value) THEN Raised("FontPartsError")
    ELSE IF Len(value.items) # 6 THEN Raised("FontPartsError")
    ELSE IF \E k \in DOMAIN value.items : ~IsNumber(value.items[k])
    THEN Raised("FontPartsError")
    ELSE Returned(PyTuple([k \in DOMAIN value.items |-> ToFloat(value.items[k])]))

\* validateTransformationAngle
validateTransformationAngle(value) ==
    IF ~IsNumber(value) THEN Raised("FontPartsError")
    ELSE IF value.n < 0 \/ value.n > 360 THEN Raised("FontPartsError")
    ELSE Returned(ToFloat(value))

Validators ==
    {"validateIndex", "validateIdentifier", "validateCoordinateTuple",
     "validateColor", "validateTransformationMatrix", "validateTransformationAngle"}

\* The validator of the name, applied.
Validate(name, value) ==
    CASE name = "validateIndex" -> validateIndex(value)
      [] name = "validateIdentifier" -> validateIdentifier(value)
      [] name = "validateCoordinateTuple" -> validateCoordinateTuple(value)
      [] name = "validateColor" -> validateColor(value)
      [] name = "validateTransformationMatrix" -> validateTransformationMatrix(value)
      [] name = "validateTransformationAngle" -> validateTransformationAngle(value)

\* The objects the callers pass.
ScalarArgs ==
    {PyNone, PyInt(-1), PyInt(0), PyInt(1), PyInt(360), PyInt(361), PyFloat(90),
     PyBool(TRUE), PyComplex(1), PyStr(<<65>>)}

IdentifierArgs ==
    {PyStr(<<>>), PyStr(<<65>>), PyStr(<<32, 126>>), PyStr(<<31>>), PyStr(<<65, 127>>),
     PyStr([k \in 1..MaxIdentifierLength |-> 65]),
     PyStr([k \in 1..(MaxIdentifierLength + 1) |-> 65])}

\* The items of the sequences the callers pass.
ItemArgs == {PyInt(0), PyFloat(1), PyInt(2), PyStr(<<65>>), PyComplex(1)}

MatrixItemArgs == {PyInt(1), PyFloat(0), PyNone}

SequencesOf(items, len) ==
    {PyTuple(x) : x \in [1..len -> items]} \cup {PyList(x) : x \in [1..len -> items]}

ValidatorArgs(name) ==
    ScalarArgs \cup
    CASE name = "validateIndex" -> {}
      [] name = "validateIdentifier" -> IdentifierArgs
      [] name = "validateCoordinateTuple" ->
            SequencesOf(ItemArgs, 1) \cup SequencesOf(ItemArgs, 2)
                \cup SequencesOf({PyInt(0)}, 3)
      [] name = "validateColor" ->
            SequencesOf(ItemArgs, 4) \cup SequencesOf({PyInt(0)}, 3)
                \cup SequencesOf({PyInt(0)}, 5)
      [] name = "validateTransformationMatrix" ->
            SequencesOf(MatrixItemArgs, 6) \cup SequencesOf({PyInt(1)}, 5)
      [] name = "validateTransformationAngle" -> {}

NotCalled == [err |-> "not called", v |-> PyNone]

ValidIdle ==
    /\ vName = "validateIndex"
    /\ vArg = PyNone
    /\ vOut = NotCalled
    /\ vAgain = NotCalled

\* A caller has a validator and an object to pass.
ValidInit ==
    /\ vName \in Validators
    /\ vArg \in ValidatorArgs(vName)
    /\ vOut = NotCalled
    /\ vAgain = NotCalled

\* result = validator(value)
ValidateArg ==
    /\ vOut = NotCalled
    /\ vOut' = Validate(vName, vArg)
    /\ UNCHANGED <<vName, vArg, vAgain, nonValidVars>>

\* validator(result)
ValidateResult ==
    /\ vOut.err = ""
    /\ vAgain = NotCalled
    /\ vAgain' = Validate(vName, vOut.v)
    /\ UNCHANGED <<vName, vArg, vOut, nonValidVars>>

ValidNext == ValidateArg \/ ValidateResult

(***************************************************************************)
(* Claims about the validators.                                            *)
(***************************************************************************)

\* C12: a validator either raises FontPartsError or returns a value, it
\* leaves its argument and everything else as they were, and given its own
\* result it returns that result again.
C12_ValidatorsPureIdempotent ==
    [][/\ vArg' = vArg
       /\ UNCHANGED nonValidVars
       /\ vOut'.err \in {"not called", "", "FontPartsError"}
       /\ vAgain' # NotCalled => vAgain' = Returned(vOut.v)]_vars

(***************************************************************************)
(* Specifications.                                                         *)
(***************************************************************************)

InitProp ==
    PropInit /\ CopyIdle /\ FileIdle /\ LayerIdle /\ WeakIdle /\ ValidIdle

SpecProp == InitProp /\ [][PropNext]_vars

InitCopy ==
    CopyInit /\ PropIdle /\ FileIdle /\ LayerIdle /\ WeakIdle /\ ValidIdle

SpecCopy == InitCopy /\ [][CopyNext]_vars

InitFile ==
    FileInit /\ PropIdle /\ CopyIdle /\ LayerIdle /\ WeakIdle /\ ValidIdle

SpecFile == InitFile /\ [][FileNext]_vars

InitLayers ==
    LayerInit /\ PropIdle /\ CopyIdle /\ FileIdle /\ WeakIdle /\ ValidIdle

SpecLayers == InitLayers /\ [][LayerNext]_vars

SpecFontCopy == InitLayers /\ [][FontCopyNext]_vars

InitWeak ==
    WeakInit /\ PropIdle /\ CopyIdle /\ FileIdle /\ LayerIdle /\ ValidIdle

SpecWeak == InitWeak /\ [][WeakNext]_vars

InitValid == ValidInit /\ PropIdle /\ CopyIdle /\ FileIdle /\ LayerIdle /\ WeakIdle

SpecValid == InitValid /\ [][ValidNext]_vars

====
